---- MODULE Spec2Model ----
(***************************************************************************)
(* The streaming session of src/chat.ts.  The file holds two revisions of  *)
(* class Thread:                                                           *)
(*   - the reconnecting Thread (lines 57-330): one shared inbound stream   *)
(*     read by every sendMessage through the single #streamReader, and a   *)
(*     start loop that reconnects when the socket closes (variables rt_...); *)
(*   - the registry Thread (lines 383-630): a distribution loop that       *)
(*     routes frames to per-message streams kept in #messageStreams        *)
(*     (variables mt_...).                                                 *)
(* SpecR is the state machine of the first, SpecM of the second.           *)
(*                                                                         *)
(* Scheduling: JavaScript runs one task at a time and drains the microtask *)
(* queue after it, so a socket event together with the promise             *)
(* continuations it wakes (the loop resuming from read(), a generator      *)
(* resuming up to its next yield) is one step.  What the caller does after *)
(* an event was yielded to it (pull again, abandon, close) is a later step.*)
(***************************************************************************)
EXTENDS Naturals, Sequences, FiniteSets

\* ------------------------------------------------------------ bounds
MaxReq == 2
MaxFrames == 3
MaxConnects == 2
MaxItems == 2

\* sendMessage calls; a call's index stands for its crypto.randomUUID()
Requests == 1 .. MaxReq
\* an id no sendMessage of the session generated
UnknownId == MaxReq + 1
\* a message id the backend mints for its own message
ServerMsgId == MaxReq + 2

\* ------------------------------------------------------------ frames
Thinking == "thinking"
Searching == "searching"

TextItem(t) == [contentType |-> "TEXT", text |-> t, imageGens |-> <<>>]
SummaryItem(t) == [contentType |-> "SUMMARY_TEXT", text |-> t, imageGens |-> <<>>]
ImageItem(gens) == [contentType |-> "OUTPUT_IMAGE", text |-> "", imageGens |-> gens]

Conversation(mid, req, action, status, contents) ==
  [type |-> "CONVERSATION", mid |-> mid, req |-> req, action |-> action,
   status |-> status, contents |-> contents]
\* USER_INPUT_ACK: an ACK frame without data.reqMessageId
Ack == [type |-> "ACK", mid |-> 0, req |-> 0, action |-> "USER_INPUT_ACK",
        status |-> "", contents |-> <<>>]
\* MESSAGE_RECEIVED_ACK: an ACK frame with data.reqMessageId (and no metadata.messageId)
AckFor(req) == [type |-> "ACK", mid |-> 0, req |-> req, action |-> "MESSAGE_RECEIVED_ACK",
                status |-> "", contents |-> <<>>]
Notification == [type |-> "NOTIFICATION", mid |-> 0, req |-> 0, action |-> "THREAD_DATA",
                 status |-> "", contents |-> <<>>]
\* an ERROR frame has type, metadata and error, and no payload
ErrorFrame(mid) == [type |-> "ERROR", mid |-> mid, req |-> 0, action |-> "",
                    status |-> "", contents |-> <<>>]

\* the correlation id a frame carries: data.reqMessageId of a CONVERSATION or
\* ACK frame, metadata.messageId of an ERROR frame; 0 for the frames without one
CorrelationId(f) ==
  IF f.type \in {"CONVERSATION", "ACK"} THEN f.req
  ELSE IF f.type = "ERROR" THEN f.mid ELSE 0

\* ------------------------------------------------------------ events
\* item: the index in data.contents of the item an event comes from (0: none)
Event(type, text, data) == [type |-> type, text |-> text, data |-> data, item |-> 0]
OfItem(evs, i) == [k \in 1 .. Len(evs) |-> [evs[k] EXCEPT !.item = i]]
Terminal(type) == type \in {"done", "error", "disconnected"}

RECURSIVE Concat(_)
Concat(ss) == IF ss = <<>> THEN <<>> ELSE Head(ss) \o Concat(Tail(ss))

\* ItemEventsR, the EVENT channel being translated like the AI_ANSWER channel
ItemEventsR_NoSentinel(action, content) ==
  IF content.contentType = "TEXT" THEN <<Event("text-delta", content.text, <<>>)>>
  ELSE IF content.contentType = "SUMMARY_TEXT" THEN
    <<Event("reasoning-delta", content.text, <<>>)>>
  ELSE <<>>

\* reconnecting Thread: the events of one content item of an APPEND chunk
ItemEventsR(action, content) ==
  IF content.contentType = "TEXT" THEN
    IF action = "EVENT" THEN
      IF content.text = Thinking THEN <<Event("reasoning-start", "", <<>>)>>
      ELSE <<>>
    ELSE <<Event("text-delta", content.text, <<>>)>>
  ELSE IF content.contentType = "SUMMARY_TEXT" THEN
    <<Event("reasoning-delta", content.text, <<>>)>>
  ELSE IF content.contentType = "OUTPUT_IMAGE" THEN
    IF content.imageGens = <<>> THEN <<>>
    ELSE LET img == content.imageGens[1] IN
      <<Event("image-thumbnail", img.thumbnail, <<>>)>>
        \o (IF img.preview # "" THEN <<Event("image", img.preview, <<>>)>> ELSE <<>>)
  ELSE <<>>

\* reconnecting Thread: the events sendMessage yields for one chunk it read
TranslateR(f) ==
  IF f.type = "ACK" THEN <<Event("ack", "", <<>>)>>
  ELSE IF f.type = "CONVERSATION" THEN
    IF f.action \in {"AI_ANSWER", "EVENT"} THEN
      IF f.status = "APPEND" THEN
        Concat([i \in 1 .. Len(f.contents) |->
                  OfItem(ItemEventsR(f.action, f.contents[i]), i)])
      ELSE IF f.status = "TOOL_CALL" THEN <<Event("tool-call", "", f.contents)>>
      ELSE IF f.status = "DONE" THEN <<Event("done", "", <<>>)>>
      ELSE <<>>
    ELSE <<>>
  ELSE IF f.type = "NOTIFICATION" THEN <<Event("notification", "", <<>>)>>
  ELSE IF f.type = "ERROR" THEN <<Event("error", "", <<>>)>>
  ELSE <<>>

\* registry Thread: the events of one content item of an APPEND or TOOL_CALL chunk
ItemEventsM(action, content) ==
  IF content.contentType = "TEXT" THEN
    IF action = "EVENT" THEN
      IF content.text = Thinking THEN <<Event("reasoning-start", "", <<>>)>>
      ELSE <<>>
    ELSE <<Event("text-delta", content.text, <<>>)>>
  ELSE IF content.contentType = "SUMMARY_TEXT" THEN
    <<Event("reasoning-delta", content.text, <<>>)>>
  ELSE <<>>

\* registry Thread: reading chunk.webSocket.payload.action of a chunk that has
\* no payload throws a TypeError inside the reader
NoPayload(f) == f.type = "ERROR"

\* registry Thread: the events sendMessage yields for one chunk it read
TranslateM(f) ==
  IF f.action \in {"AI_ANSWER", "EVENT"} THEN
    IF f.status \in {"APPEND", "TOOL_CALL"} THEN
      Concat([i \in 1 .. Len(f.contents) |->
                  OfItem(ItemEventsM(f.action, f.contents[i]), i)])
    ELSE IF f.status = "DONE" THEN <<Event("done", "", <<>>)>>
    ELSE <<>>
  ELSE <<>>

\* ------------------------------------------------------------ inputs
\* Frames the backend may send.  metadata.messageId is either the echoed
\* request id or an id of the backend's own: it is never the id of another
\* request, which the backend has no way to produce but by echoing.
AppendHi(mid, req) == Conversation(mid, req, "AI_ANSWER", "APPEND", <<TextItem("hi")>>)
AppendThinking(req) ==
  Conversation(req, req, "EVENT", "APPEND", <<TextItem(Thinking), SummaryItem("why")>>)
AppendSearching(req) == Conversation(req, req, "EVENT", "APPEND", <<TextItem(Searching)>>)
Done(req) == Conversation(req, req, "AI_ANSWER", "DONE", <<>>)

\* the frames the reconnecting Thread is driven with
FramesR ==
  UNION { { AppendThinking(req), AppendSearching(req), Done(req), ErrorFrame(req) } :
            req \in Requests }
    \cup { Notification }

\* the frames the registry Thread is driven with
FramesM ==
  UNION { { AppendThinking(req), AppendHi(ServerMsgId, req), Done(req), ErrorFrame(req) } :
            req \in Requests }
    \cup { AckFor(req) : req \in Requests \cup {UnknownId} }
    \cup { AppendHi(UnknownId, UnknownId), Done(UnknownId), ErrorFrame(UnknownId),
           Ack, Notification }

\* the backend echoes the id of a request only after it received that request
Echoed(f, sent) == CorrelationId(f) \in Requests => CorrelationId(f) \in sent

\* a frame as the stream holds it: seq is its arrival number on the session,
\* conn the number of reconnects before the connection it arrived on
Tagged(f, n, c) == [f |-> f, seq |-> n, conn |-> c]
\* an event as a caller saw it: ev, and the frame it was translated from
Yielded(ev, chunk) ==
  [type |-> ev.type, text |-> ev.text, data |-> ev.data, item |-> ev.item,
   seq |-> chunk.seq, conn |-> chunk.conn, cid |-> CorrelationId(chunk.f)]

YieldedAll(evs, chunk) == [i \in 1 .. Len(evs) |-> Yielded(evs[i], chunk)]

\* ------------------------------------------------------------ state
VARIABLES
  \* reconnecting Thread
  rt_ws,            \* readyState of this.#ws: "open", "closing", "closed"
  rt_loop,          \* the start loop of #stream: "listening" (handlers set on
                    \* this.#ws, awaiting `closed`), "reconnecting" (onclose is
                    \* awaiting connectWS), "ended" (after controller.error),
                    \* "cancelled" (the cancel callback removed the handlers)
  rt_stream,        \* state of #stream: "readable", "closed", "errored"
  rt_queue,         \* chunks enqueued on #stream and not yet read
  rt_readRequests,  \* sendMessage calls whose #streamReader.read() is pending
  rt_gen,           \* per call: "idle", "reading", "yielded", "done", "threw"
  rt_pend,          \* per call: events of the current chunk still to yield
  rt_events,        \* per call: the events yielded so far
  rt_sent,          \* calls whose outbound frame went out on an open socket
  rt_nframes,       \* message events handled so far
  rt_connects,      \* connectWS calls made by the onclose handler
  rt_closedOpen,    \* close() was called while the session was Open
  rt_atClose,       \* the calls suspended in read() when that close() ran
  \* registry Thread
  mt_ws,            \* readyState of this.#ws
  mt_globalStream,  \* state of #globalStream: "readable", "closed", "errored"
  mt_loop,          \* #startDistributing: "reading" or "ended"
  mt_messageStreams,\* keys of #messageStreams
  mt_chan,          \* per call: chunks enqueued on its stream and not yet read
  mt_chanState,     \* per call: "none", "readable", "closed", "errored"
  mt_gen,           \* per call: "idle", "reading", "yielded", "done", "threw"
  mt_pend,          \* per call: events of the current chunk still to yield
  mt_events,        \* per call: the events yielded so far
  mt_sent,          \* calls whose outbound frame went out on an open socket
  mt_nframes,       \* message events handled so far
  mt_dropped,       \* CONVERSATION and ERROR frames the loop found no entry for
  mt_removedBy,     \* per call: what removed its registry entry: "none",
                    \* "terminal" (the loop, after the terminal frame
                    \* of that call), "teardown" (the loop's finally at the
                    \* end of the inbound stream), "crash" (the loop's
                    \* finally after it threw on the frame of another
                    \* call), "caller" (sendMessage's finally)
  mt_closeCalled,   \* close() was called
  mt_atClose,       \* the calls in flight when close() was first called
  \* the translation step of sendMessage, on its own
  tr_chunk,         \* the chunk a sendMessage loop has read
  tr_eventsR,       \* what the reconnecting Thread's sendMessage yields for it
  tr_eventsM        \* what the registry Thread's sendMessage yields for it

rtVars == <<rt_ws, rt_loop, rt_stream, rt_queue, rt_readRequests, rt_gen, rt_pend,
            rt_events, rt_sent, rt_nframes, rt_connects, rt_closedOpen, rt_atClose>>
mtVars == <<mt_ws, mt_globalStream, mt_loop, mt_messageStreams, mt_chan, mt_chanState,
            mt_gen, mt_pend, mt_events, mt_sent, mt_nframes, mt_dropped, mt_removedBy,
            mt_closeCalled, mt_atClose>>
trVars == <<tr_chunk, tr_eventsR, tr_eventsM>>
vars == <<rtVars, mtVars, trVars>>

\* no chunk read yet
TrNone == [type |-> "NONE", mid |-> 0, req |-> 0, action |-> "", status |-> "",
           contents |-> <<>>]

Init ==
  /\ rt_ws = "open"
  /\ rt_loop = "listening"
  /\ rt_stream = "readable"
  /\ rt_queue = <<>>
  /\ rt_readRequests = <<>>
  /\ rt_gen = [r \in Requests |-> "idle"]
  /\ rt_pend = [r \in Requests |-> <<>>]
  /\ rt_events = [r \in Requests |-> <<>>]
  /\ rt_sent = {}
  /\ rt_nframes = 0
  /\ rt_connects = 0
  /\ rt_closedOpen = FALSE
  /\ rt_atClose = {}
  /\ mt_ws = "open"
  /\ mt_globalStream = "readable"
  /\ mt_loop = "reading"
  /\ mt_messageStreams = {}
  /\ mt_chan = [r \in Requests |-> <<>>]
  /\ mt_chanState = [r \in Requests |-> "none"]
  /\ mt_gen = [r \in Requests |-> "idle"]
  /\ mt_pend = [r \in Requests |-> <<>>]
  /\ mt_events = [r \in Requests |-> <<>>]
  /\ mt_sent = {}
  /\ mt_nframes = 0
  /\ mt_dropped = 0
  /\ mt_removedBy = [r \in Requests |-> "none"]
  /\ mt_closeCalled = FALSE
  /\ mt_atClose = {}
  /\ tr_chunk = TrNone
  /\ tr_eventsR = <<>>
  /\ tr_eventsM = <<>>

Range(s) == { s[i] : i \in 1 .. Len(s) }
Last(s) == s[Len(s)]
Disconnected ==
  [type |-> "disconnected", text |-> "", data |-> <<>>, item |-> 0, seq |-> 0,
   conn |-> 0, cid |-> 0]

\* ------------------------------------------------------------ reconnecting Thread
\* the stream is locked: the constructor takes #streamReader and never releases it
RtLocked == TRUE

\* the session states of the connection supervisor
RtOpen == rt_ws = "open" /\ rt_loop = "listening" /\ rt_stream = "readable"
RtReconnecting == rt_loop = "reconnecting"
RtClosed == ~RtOpen /\ ~RtReconnecting /\ rt_ws # "open"

\* chunks a sendMessage loop reads and passes over without yielding
RECURSIVE RtSkip(_)
RtSkip(q) ==
  IF q = <<>> THEN q
  ELSE IF TranslateR(Head(q).f) = <<>> THEN RtSkip(Tail(q)) ELSE q

\* RtRead, a read leaving the chunk it returns in the queue of the stream
RtRead_Peek(r) ==
  LET q == RtSkip(rt_queue) IN
  IF q # <<>> THEN
    LET evs == YieldedAll(TranslateR(Head(q).f), Head(q)) IN
    /\ rt_queue' = q
    /\ rt_gen' = [rt_gen EXCEPT ![r] = "yielded"]
    /\ rt_events' = [rt_events EXCEPT ![r] = Append(@, Head(evs))]
    /\ rt_pend' = [rt_pend EXCEPT ![r] = Tail(evs)]
    /\ UNCHANGED rt_readRequests
  ELSE
    /\ rt_gen' = [rt_gen EXCEPT ![r] = IF rt_stream = "errored" THEN "threw" ELSE "reading"]
    /\ rt_readRequests' = IF rt_stream = "errored" THEN rt_readRequests
                          ELSE Append(rt_readRequests, r)
    /\ rt_queue' = q
    /\ UNCHANGED <<rt_events, rt_pend>>

\* sendMessage, from `await this.#streamReader.read()` to its next suspension
RtRead(r) ==
  LET q == RtSkip(rt_queue) IN
  IF q # <<>> THEN
    LET evs == YieldedAll(TranslateR(Head(q).f), Head(q)) IN
    /\ rt_queue' = Tail(q)
    /\ rt_gen' = [rt_gen EXCEPT ![r] = "yielded"]
    /\ rt_events' = [rt_events EXCEPT ![r] = Append(@, Head(evs))]
    /\ rt_pend' = [rt_pend EXCEPT ![r] = Tail(evs)]
    /\ UNCHANGED rt_readRequests
  ELSE IF rt_stream = "errored" THEN
    /\ rt_gen' = [rt_gen EXCEPT ![r] = "threw"]
    /\ rt_queue' = q
    /\ UNCHANGED <<rt_events, rt_pend, rt_readRequests>>
  ELSE IF rt_stream = "closed" THEN
    /\ rt_gen' = [rt_gen EXCEPT ![r] = "yielded"]
    /\ rt_events' = [rt_events EXCEPT ![r] = Append(@, Disconnected)]
    /\ rt_queue' = q
    /\ UNCHANGED <<rt_pend, rt_readRequests>>
  ELSE
    /\ rt_gen' = [rt_gen EXCEPT ![r] = "reading"]
    /\ rt_readRequests' = Append(rt_readRequests, r)
    /\ rt_queue' = q
    /\ UNCHANGED <<rt_events, rt_pend>>

\* controller.error(err) and the end of the start loop: the queue is reset and
\* every pending read rejects, which the awaiting sendMessage rethrows
RtFail ==
  /\ rt_stream' = "errored"
  /\ rt_loop' = "ended"
  /\ rt_queue' = <<>>
  /\ rt_readRequests' = <<>>
  /\ rt_gen' = [r \in Requests |->
                  IF r \in Range(rt_readRequests) THEN "threw" ELSE rt_gen[r]]

\* the first next() of sendMessage(message): encode, send, first read
RtSend(r, ok) ==
  /\ rt_gen[r] = "idle"
  /\ \A s \in Requests : s < r => rt_gen[s] # "idle"
  /\ IF ~ok THEN
       /\ rt_gen' = [rt_gen EXCEPT ![r] = "threw"]
       /\ UNCHANGED <<rt_queue, rt_readRequests, rt_pend, rt_events, rt_sent>>
     ELSE
       /\ rt_sent' = IF rt_ws = "open" THEN rt_sent \cup {r} ELSE rt_sent
       /\ RtRead(r)
  /\ UNCHANGED <<rt_ws, rt_loop, rt_stream, rt_nframes, rt_connects, rt_closedOpen, rt_atClose>>
  /\ UNCHANGED <<mtVars, trVars>>

\* a later next() of the caller
RtPull(r) ==
  /\ rt_gen[r] = "yielded"
  /\ IF rt_pend[r] # <<>> THEN
       /\ rt_events' = [rt_events EXCEPT ![r] = Append(@, Head(rt_pend[r]))]
       /\ rt_pend' = [rt_pend EXCEPT ![r] = Tail(@)]
       /\ UNCHANGED <<rt_gen, rt_queue, rt_readRequests>>
     ELSE IF Terminal(Last(rt_events[r]).type) THEN
       /\ rt_gen' = [rt_gen EXCEPT ![r] = "done"]
       /\ UNCHANGED <<rt_events, rt_pend, rt_queue, rt_readRequests>>
     ELSE RtRead(r)
  /\ UNCHANGED <<rt_ws, rt_loop, rt_stream, rt_sent, rt_nframes, rt_connects,
                 rt_closedOpen, rt_atClose>>
  /\ UNCHANGED <<mtVars, trVars>>

\* onmessage with a payload that parses: controller.enqueue.  Once the stream
\* is errored enqueue throws and the handler's reject changes nothing.
RtFrameArrive(f) ==
  /\ rt_ws = "open"
  /\ rt_loop = "listening"
  /\ rt_stream = "readable"
  /\ rt_nframes < MaxFrames
  /\ Echoed(f, rt_sent)
  /\ rt_nframes' = rt_nframes + 1
  /\ LET chunk == Tagged(f, rt_nframes + 1, rt_connects) IN
     IF rt_readRequests = <<>> THEN
       /\ rt_queue' = Append(rt_queue, chunk)
       /\ UNCHANGED <<rt_readRequests, rt_gen, rt_pend, rt_events>>
     ELSE
       LET r == Head(rt_readRequests)
           evs == YieldedAll(TranslateR(f), chunk) IN
       /\ rt_queue' = rt_queue
       /\ IF evs = <<>> THEN
            /\ rt_readRequests' = Append(Tail(rt_readRequests), r)
            /\ UNCHANGED <<rt_gen, rt_pend, rt_events>>
          ELSE
            /\ rt_readRequests' = Tail(rt_readRequests)
            /\ rt_gen' = [rt_gen EXCEPT ![r] = "yielded"]
            /\ rt_events' = [rt_events EXCEPT ![r] = Append(@, Head(evs))]
            /\ rt_pend' = [rt_pend EXCEPT ![r] = Tail(evs)]
  /\ UNCHANGED <<rt_ws, rt_loop, rt_stream, rt_sent, rt_connects, rt_closedOpen, rt_atClose>>
  /\ UNCHANGED <<mtVars, trVars>>

\* onmessage with a payload JSON.parse rejects: reject(new Error(...))
RtParseError ==
  /\ rt_ws = "open"
  /\ rt_loop = "listening"
  /\ RtFail
  /\ UNCHANGED <<rt_ws, rt_pend, rt_events, rt_sent, rt_nframes, rt_connects,
                 rt_closedOpen, rt_atClose>>
  /\ UNCHANGED <<mtVars, trVars>>

\* the socket's error event: onerror = reject
RtWsError ==
  /\ rt_ws \in {"open", "closing"}
  /\ rt_loop = "listening"
  /\ RtFail
  /\ UNCHANGED <<rt_ws, rt_pend, rt_events, rt_sent, rt_nframes, rt_connects,
                 rt_closedOpen, rt_atClose>>
  /\ UNCHANGED <<mtVars, trVars>>

\* RtWsClose, the replacement being requested while the socket is not yet closed
RtWsClose_NotYetClosed ==
  /\ rt_ws \in {"open", "closing"}
  /\ rt_loop = "listening" => rt_connects < MaxConnects
  /\ rt_ws' = IF rt_loop = "listening" THEN rt_ws ELSE "closed"
  /\ IF rt_loop = "listening"
     THEN rt_loop' = "reconnecting" /\ rt_connects' = rt_connects + 1
     ELSE UNCHANGED <<rt_loop, rt_connects>>
  /\ UNCHANGED <<rt_stream, rt_queue, rt_readRequests, rt_gen, rt_pend, rt_events,
                 rt_sent, rt_nframes, rt_closedOpen, rt_atClose>>
  /\ UNCHANGED <<mtVars, trVars>>

\* the socket's close event; onclose, while it is set, calls connectWS
RtWsClose ==
  /\ rt_ws \in {"open", "closing"}
  /\ rt_loop = "listening" => rt_connects < MaxConnects
  /\ rt_ws' = "closed"
  /\ IF rt_loop = "listening"
     THEN rt_loop' = "reconnecting" /\ rt_connects' = rt_connects + 1
     ELSE UNCHANGED <<rt_loop, rt_connects>>
  /\ UNCHANGED <<rt_stream, rt_queue, rt_readRequests, rt_gen, rt_pend, rt_events,
                 rt_sent, rt_nframes, rt_closedOpen, rt_atClose>>
  /\ UNCHANGED <<mtVars, trVars>>

\* RtConnectOk, the loop leaving instead of setting the handlers again
RtConnectOk_LoopEnds ==
  /\ rt_loop = "reconnecting"
  /\ rt_ws' = "open"
  /\ rt_loop' = "ended"
  /\ UNCHANGED <<rt_stream, rt_queue, rt_readRequests, rt_gen, rt_pend, rt_events,
                 rt_sent, rt_nframes, rt_connects, rt_closedOpen, rt_atClose>>
  /\ UNCHANGED <<mtVars, trVars>>

\* connectWS resolves: this.#ws is the new socket, resolve(), and the loop
\* sets the handlers on it
RtConnectOk ==
  /\ rt_loop = "reconnecting"
  /\ rt_ws' = "open"
  /\ rt_loop' = "listening"
  /\ UNCHANGED <<rt_stream, rt_queue, rt_readRequests, rt_gen, rt_pend, rt_events,
                 rt_sent, rt_nframes, rt_connects, rt_closedOpen, rt_atClose>>
  /\ UNCHANGED <<mtVars, trVars>>

\* connectWS rejects: reject(err), caught by the loop
RtConnectFail ==
  /\ rt_loop = "reconnecting"
  /\ RtFail
  /\ UNCHANGED <<rt_ws, rt_pend, rt_events, rt_sent, rt_nframes, rt_connects,
                 rt_closedOpen, rt_atClose>>
  /\ UNCHANGED <<mtVars, trVars>>

\* ReadableStream.cancel(): rejected and without effect on a locked stream;
\* otherwise the stream closes, pending reads resolve done (the reader yields
\* disconnected) and the cancel callback removes onerror and onclose
RtStreamCancel(locked) ==
  IF locked \/ rt_stream # "readable" THEN
    UNCHANGED <<rt_stream, rt_loop, rt_queue, rt_readRequests, rt_gen, rt_events>>
  ELSE
    /\ rt_stream' = "closed"
    /\ rt_loop' = "cancelled"
    /\ rt_queue' = <<>>
    /\ rt_readRequests' = <<>>
    /\ rt_gen' = [r \in Requests |->
                    IF r \in Range(rt_readRequests) THEN "yielded" ELSE rt_gen[r]]
    /\ rt_events' = [r \in Requests |->
                       IF r \in Range(rt_readRequests)
                       THEN Append(rt_events[r], Disconnected) ELSE rt_events[r]]

\* close() / [Symbol.dispose](): this.#stream.cancel(); this.#ws.close()
RtClose ==
  /\ RtStreamCancel(RtLocked)
  /\ rt_ws' = IF rt_ws = "open" THEN "closing" ELSE rt_ws
  /\ rt_closedOpen' = (rt_closedOpen \/ RtOpen)
  /\ rt_atClose' = IF ~rt_closedOpen /\ RtOpen THEN Range(rt_readRequests) ELSE rt_atClose
  /\ UNCHANGED <<rt_pend, rt_sent, rt_nframes, rt_connects>>
  /\ UNCHANGED <<mtVars, trVars>>

NextR ==
  \/ \E r \in Requests, ok \in BOOLEAN : RtSend(r, ok)
  \/ \E r \in Requests : RtPull(r)
  \/ \E f \in FramesR : RtFrameArrive(f)
  \/ RtParseError
  \/ RtWsError
  \/ RtWsClose
  \/ RtConnectOk
  \/ RtConnectFail
  \/ RtClose

SpecR == Init /\ [][NextR]_vars

\* ------------------------------------------------------------ registry Thread
\* chunks a sendMessage loop reads and passes over without yielding
RECURSIVE MtSkip(_)
MtSkip(q) ==
  IF q = <<>> THEN q
  ELSE IF TranslateM(Head(q).f) = <<>> THEN MtSkip(Tail(q)) ELSE q

MtInFlight == { r \in Requests : mt_gen[r] \in {"reading", "yielded"} }

\* this.#messageStreams.delete(messageId) by `who`
MtDelete(r, who) ==
  /\ mt_messageStreams' = mt_messageStreams \ {r}
  /\ mt_removedBy' = IF r \in mt_messageStreams
                     THEN [mt_removedBy EXCEPT ![r] = who] ELSE mt_removedBy

\* sendMessage, from `await reader.read()` to its next suspension or its end;
\* the finally block releases the lock and deletes the registry entry
MtRead(r) ==
  LET q == MtSkip(mt_chan[r]) IN
  /\ mt_chan' = [mt_chan EXCEPT ![r] = IF q = <<>> THEN q ELSE Tail(q)]
  /\ IF q # <<>> THEN
       LET evs == YieldedAll(TranslateM(Head(q).f), Head(q)) IN
       /\ mt_gen' = [mt_gen EXCEPT ![r] = "yielded"]
       /\ mt_events' = [mt_events EXCEPT ![r] = Append(@, Head(evs))]
       /\ mt_pend' = [mt_pend EXCEPT ![r] = Tail(evs)]
       /\ UNCHANGED <<mt_messageStreams, mt_removedBy>>
     ELSE IF mt_chanState[r] = "errored" THEN
       /\ mt_gen' = [mt_gen EXCEPT ![r] = "threw"]
       /\ MtDelete(r, "caller")
       /\ UNCHANGED <<mt_events, mt_pend>>
     ELSE IF mt_chanState[r] = "closed" THEN
       /\ mt_gen' = [mt_gen EXCEPT ![r] = "done"]
       /\ MtDelete(r, "caller")
       /\ UNCHANGED <<mt_events, mt_pend>>
     ELSE
       /\ mt_gen' = [mt_gen EXCEPT ![r] = "reading"]
       /\ UNCHANGED <<mt_events, mt_pend, mt_messageStreams, mt_removedBy>>

\* MtSend, the frame going out while the stream of the call is not registered
MtSend_Unregistered(r, ok) ==
  /\ mt_gen[r] = "idle"
  /\ \A s \in Requests : s < r => mt_gen[s] # "idle"
  /\ mt_messageStreams' = mt_messageStreams
  /\ mt_chanState' = [mt_chanState EXCEPT ![r] = "readable"]
  /\ IF ~ok THEN
       /\ mt_gen' = [mt_gen EXCEPT ![r] = "threw"]
       /\ UNCHANGED mt_sent
     ELSE
       /\ mt_sent' = IF mt_ws = "open" THEN mt_sent \cup {r} ELSE mt_sent
       /\ mt_gen' = [mt_gen EXCEPT ![r] = "reading"]
  /\ UNCHANGED <<mt_ws, mt_globalStream, mt_loop, mt_chan, mt_pend, mt_events,
                 mt_nframes, mt_dropped, mt_removedBy, mt_closeCalled, mt_atClose>>
  /\ UNCHANGED <<rtVars, trVars>>

\* the first next() of sendMessage(message): register, encode, send, first read
MtSend(r, ok) ==
  /\ mt_gen[r] = "idle"
  /\ \A s \in Requests : s < r => mt_gen[s] # "idle"
  /\ mt_messageStreams' = mt_messageStreams \cup {r}
  /\ mt_chanState' = [mt_chanState EXCEPT ![r] = "readable"]
  /\ IF ~ok THEN
       /\ mt_gen' = [mt_gen EXCEPT ![r] = "threw"]
       /\ UNCHANGED mt_sent
     ELSE
       /\ mt_sent' = IF mt_ws = "open" THEN mt_sent \cup {r} ELSE mt_sent
       /\ mt_gen' = [mt_gen EXCEPT ![r] = "reading"]
  /\ UNCHANGED <<mt_ws, mt_globalStream, mt_loop, mt_chan, mt_pend, mt_events,
                 mt_nframes, mt_dropped, mt_removedBy, mt_closeCalled, mt_atClose>>
  /\ UNCHANGED <<rtVars, trVars>>

\* a later next() of the caller
MtPull(r) ==
  /\ mt_gen[r] = "yielded"
  /\ IF mt_pend[r] # <<>> THEN
       /\ mt_events' = [mt_events EXCEPT ![r] = Append(@, Head(mt_pend[r]))]
       /\ mt_pend' = [mt_pend EXCEPT ![r] = Tail(@)]
       /\ UNCHANGED <<mt_gen, mt_chan, mt_messageStreams, mt_removedBy>>
     ELSE IF Terminal(Last(mt_events[r]).type) THEN
       /\ mt_gen' = [mt_gen EXCEPT ![r] = "done"]
       /\ MtDelete(r, "caller")
       /\ UNCHANGED <<mt_events, mt_pend, mt_chan>>
     ELSE MtRead(r)
  /\ UNCHANGED <<mt_ws, mt_globalStream, mt_loop, mt_chanState, mt_sent, mt_nframes,
                 mt_dropped, mt_closeCalled, mt_atClose>>
  /\ UNCHANGED <<rtVars, trVars>>

\* the caller abandons the generator at a yield: return() runs the finally block
MtAbandon(r) ==
  /\ mt_gen[r] = "yielded"
  /\ mt_gen' = [mt_gen EXCEPT ![r] = "returned"]
  /\ MtDelete(r, "caller")
  /\ UNCHANGED <<mt_ws, mt_globalStream, mt_loop, mt_chan, mt_chanState, mt_pend,
                 mt_events, mt_sent, mt_nframes, mt_dropped, mt_closeCalled, mt_atClose>>
  /\ UNCHANGED <<rtVars, trVars>>

\* the end of #startDistributing.  failed: the catch block errors every
\* registered controller (queue reset, pending read rejected) and the closes of
\* the finally block throw and are swallowed; otherwise the finally block closes
\* every registered controller (pending read resolved done).  Then clear().
\* own: the call whose frame the loop threw on, 0 when the stream itself ended.
MtTeardown(failed, own) ==
  /\ mt_loop = "reading"
  /\ mt_loop' = "ended"
  /\ mt_messageStreams' = {}
  /\ mt_removedBy' = [r \in Requests |->
                        IF r \notin mt_messageStreams THEN mt_removedBy[r]
                        ELSE IF own = 0 THEN "teardown"
                        ELSE IF own = r THEN "terminal" ELSE "crash"]
  /\ mt_chanState' = [r \in Requests |->
                        IF r \in mt_messageStreams
                        THEN (IF failed THEN "errored" ELSE "closed")
                        ELSE mt_chanState[r]]
  /\ mt_chan' = [r \in Requests |->
                   IF failed /\ r \in mt_messageStreams THEN <<>> ELSE mt_chan[r]]
  /\ mt_gen' = [r \in Requests |->
                  IF r \in mt_messageStreams /\ mt_gen[r] = "reading"
                  THEN (IF failed THEN "threw" ELSE "done")
                  ELSE mt_gen[r]]
  /\ UNCHANGED <<mt_pend, mt_events>>

\* ChanPut, putting the chunk at the head of the queue
ChanPut_AtHead(q, chunk) == <<chunk>> \o q

\* controller.enqueue(value) with no read pending: the chunk joins the queue
ChanPut(q, chunk) == Append(q, chunk)

\* controller.enqueue(value) on the stream of r, then close() and delete for a
\* DONE chunk; a reader waiting in read() resumes with the chunk
MtEnqueue(r, chunk) ==
  LET evs == YieldedAll(TranslateM(chunk.f), chunk)
      isDone == chunk.f.action \in {"AI_ANSWER", "EVENT"} /\ chunk.f.status = "DONE" IN
  /\ IF mt_gen[r] = "reading" /\ evs # <<>> THEN
       /\ mt_gen' = [mt_gen EXCEPT ![r] = "yielded"]
       /\ mt_events' = [mt_events EXCEPT ![r] = Append(@, Head(evs))]
       /\ mt_pend' = [mt_pend EXCEPT ![r] = Tail(evs)]
       /\ UNCHANGED mt_chan
     ELSE IF mt_gen[r] = "reading" THEN
       UNCHANGED <<mt_gen, mt_events, mt_pend, mt_chan>>
     ELSE
       /\ mt_chan' = [mt_chan EXCEPT ![r] = ChanPut(@, chunk)]
       /\ UNCHANGED <<mt_gen, mt_events, mt_pend>>
  /\ IF isDone THEN
       /\ mt_chanState' = [mt_chanState EXCEPT ![r] = "closed"]
       /\ MtDelete(r, "terminal")
     ELSE UNCHANGED <<mt_chanState, mt_messageStreams, mt_removedBy>>
  /\ UNCHANGED mt_loop

\* MtKey, falling back to a registered call when the id is not registered
MtKey_Fallback(f) ==
  IF f.mid \in mt_messageStreams \/ mt_messageStreams = {} THEN f.mid
  ELSE CHOOSE r \in mt_messageStreams : TRUE

\* the registry key the loop looks a frame up by: value.webSocket.metadata.messageId
MtKey(f) == f.mid

\* what the end of #globalStream changes once the loop has already ended
MtLoopGone ==
  /\ mt_loop = "ended"
  /\ UNCHANGED <<mt_loop, mt_messageStreams, mt_removedBy, mt_chanState, mt_chan, mt_gen,
                 mt_pend, mt_events>>

\* one iteration of the loop of #startDistributing on the chunk it read
MtDistribute(chunk) ==
  IF chunk.f.type \in {"NOTIFICATION", "ACK"} THEN
    UNCHANGED <<mt_loop, mt_messageStreams, mt_removedBy, mt_chanState, mt_chan, mt_gen,
                mt_pend, mt_events, mt_dropped>>
  ELSE IF MtKey(chunk.f) \notin mt_messageStreams THEN
    /\ mt_dropped' = mt_dropped + 1
    /\ UNCHANGED <<mt_loop, mt_messageStreams, mt_removedBy, mt_chanState, mt_chan,
                   mt_gen, mt_pend, mt_events>>
  ELSE IF NoPayload(chunk.f) THEN
    \* enqueued, then value.webSocket.payload.action throws: catch and finally
    MtTeardown(TRUE, MtKey(chunk.f)) /\ UNCHANGED mt_dropped
  ELSE MtEnqueue(MtKey(chunk.f), chunk) /\ UNCHANGED mt_dropped

\* onmessage with a payload that parses: controller.enqueue wakes the loop.
\* Once #globalStream is closed or errored, enqueue throws and nothing changes;
\* once the loop has ended, the chunk stays in #globalStream, which nobody reads.
MtFrameArrive(f) ==
  /\ mt_ws = "open"
  /\ mt_globalStream = "readable"
  /\ mt_loop = "reading"
  /\ mt_nframes < MaxFrames
  /\ Echoed(f, mt_sent)
  /\ mt_nframes' = mt_nframes + 1
  /\ MtDistribute(Tagged(f, mt_nframes + 1, 0))
  /\ UNCHANGED <<mt_ws, mt_globalStream, mt_sent, mt_closeCalled, mt_atClose>>
  /\ UNCHANGED <<rtVars, trVars>>

\* onmessage with a payload JSON.parse rejects: controller.error(error)
MtParseError ==
  /\ mt_ws = "open"
  /\ mt_globalStream = "readable"
  /\ mt_globalStream' = "errored"
  /\ (MtTeardown(TRUE, 0) \/ MtLoopGone)
  /\ UNCHANGED <<mt_ws, mt_sent, mt_nframes, mt_dropped, mt_closeCalled, mt_atClose>>
  /\ UNCHANGED <<rtVars, trVars>>

\* the socket's error event: controller.error(error)
MtWsError ==
  /\ mt_ws \in {"open", "closing"}
  /\ mt_globalStream = "readable"
  /\ mt_globalStream' = "errored"
  /\ (MtTeardown(TRUE, 0) \/ MtLoopGone)
  /\ UNCHANGED <<mt_ws, mt_sent, mt_nframes, mt_dropped, mt_closeCalled, mt_atClose>>
  /\ UNCHANGED <<rtVars, trVars>>

\* the socket's close event: controller.close(), which throws in the handler
\* when #globalStream is no longer readable
MtWsClose ==
  /\ mt_ws \in {"open", "closing"}
  /\ mt_ws' = "closed"
  /\ IF mt_globalStream = "readable"
     THEN mt_globalStream' = "closed" /\ (MtTeardown(FALSE, 0) \/ MtLoopGone)
     ELSE UNCHANGED <<mt_globalStream, mt_loop, mt_messageStreams, mt_removedBy,
                      mt_chanState, mt_chan, mt_gen, mt_pend, mt_events>>
  /\ UNCHANGED <<mt_sent, mt_nframes, mt_dropped, mt_closeCalled, mt_atClose>>
  /\ UNCHANGED <<rtVars, trVars>>

\* close() / [Symbol.dispose](): this.#globalReader.cancel(); this.#ws.close()
MtClose ==
  /\ IF mt_globalStream = "readable"
     THEN mt_globalStream' = "closed" /\ (MtTeardown(FALSE, 0) \/ MtLoopGone)
     ELSE UNCHANGED <<mt_globalStream, mt_loop, mt_messageStreams, mt_removedBy,
                      mt_chanState, mt_chan, mt_gen, mt_pend, mt_events>>
  /\ mt_ws' = IF mt_ws = "open" THEN "closing" ELSE mt_ws
  /\ mt_closeCalled' = TRUE
  /\ mt_atClose' = IF mt_closeCalled THEN mt_atClose ELSE MtInFlight
  /\ UNCHANGED <<mt_sent, mt_nframes, mt_dropped>>
  /\ UNCHANGED <<rtVars, trVars>>

NextM ==
  \/ \E r \in Requests, ok \in BOOLEAN : MtSend(r, ok)
  \/ \E r \in Requests : MtPull(r)
  \/ \E r \in Requests : MtAbandon(r)
  \/ \E f \in FramesM : MtFrameArrive(f)
  \/ MtParseError
  \/ MtWsError
  \/ MtWsClose
  \/ MtClose

SpecM == Init /\ [][NextM]_vars

\* ------------------------------------------------------------ translation
\* entries of outputImageData.imageGens: thumbnail, and preview ("" when absent)
ImageGen(thumbnail, preview) == [thumbnail |-> thumbnail, preview |-> preview]

TrImageLists ==
  { <<>>,
    <<ImageGen("t1", "p1")>>,
    <<ImageGen("t1", "")>>,
    <<ImageGen("t1", "p1"), ImageGen("t2", "p2")>>,
    <<ImageGen("t1", ""), ImageGen("t2", "p2")>> }

\* the content items a chunk is built from
TrItems ==
  { TextItem(Thinking), TextItem(Searching), TextItem("hi"), SummaryItem("why") }
    \cup { ImageItem(gens) : gens \in TrImageLists }

TrContents == UNION { [1 .. n -> TrItems] : n \in 0 .. MaxItems }

\* the CONVERSATION chunks a sendMessage loop may read
TrChunks ==
  { Conversation(1, 1, action, status, contents) :
      action \in {"AI_ANSWER", "EVENT"}, status \in {"APPEND", "TOOL_CALL"},
      contents \in TrContents }
    \cup { Conversation(1, 1, action, "DONE", <<>>) : action \in {"AI_ANSWER", "EVENT"} }

\* one pass of the body of the read loop of sendMessage over the chunk f, in
\* either revision
TrTranslate(f) ==
  /\ tr_chunk' = f
  /\ tr_eventsR' = TranslateR(f)
  /\ tr_eventsM' = TranslateM(f)
  /\ UNCHANGED <<rtVars, mtVars>>

NextT == \E f \in TrChunks : TrTranslate(f)

SpecT == Init /\ [][NextT]_vars

\* ------------------------------------------------------------ properties
TerminalCount(evs) == Cardinality({ i \in 1 .. Len(evs) : Terminal(evs[i].type) })
RtInFlight(r) == rt_gen[r] \in {"reading", "yielded"}

\* e1 is yielded before e2: frames in arrival order, and the items of one frame
\* in the order of data.contents
InOrder(e1, e2) == e1.seq < e2.seq \/ (e1.seq = e2.seq /\ e1.item <= e2.item)

\* C1: while two sendMessage calls are in flight, no event translated from a
\* frame that carries the correlation id of one is yielded on the sequence of
\* the other.
C1_Isolation ==
  [][\A a, b \in Requests :
       (a # b /\ RtInFlight(a) /\ RtInFlight(b)
          /\ Len(rt_events'[b]) > Len(rt_events[b]))
       => Last(rt_events'[b]).cid # a]_vars

\* C2: the events a call has yielded, those of its current chunk still to
\* yield and the chunks waiting on its stream are in the order the frames
\* arrived, whatever arrived for other calls in between.
C2_ArrivalOrder ==
  \A r \in Requests :
    LET evs == mt_events[r] \o mt_pend[r]
        q == mt_chan[r] IN
    /\ \A i, j \in 1 .. Len(evs) : i < j => InOrder(evs[i], evs[j])
    /\ \A i, j \in 1 .. Len(q) : i < j => q[i].seq < q[j].seq
    /\ \A i \in 1 .. Len(evs), j \in 1 .. Len(q) : evs[i].seq < q[j].seq

\* a call has yielded events of its first and its third frame, in that order
\* and two of them from one frame, while the frame between went to another call
C2_Witness ==
  \E r, o \in Requests :
    /\ r # o
    /\ \E i, j, k \in 1 .. Len(mt_events[r]) :
         /\ i < j /\ j < k
         /\ mt_events[r][i].seq = mt_events[r][j].seq
         /\ mt_events[r][i].item < mt_events[r][j].item
         /\ mt_events[r][j].seq + 1 < mt_events[r][k].seq
    /\ \E i \in 1 .. Len(mt_events[o]) : mt_events[o][i].seq = mt_events[r][1].seq + 1

\* C3: no event follows a terminal event, and a transmitted call that has
\* ended has yielded exactly one terminal event, its last.
C3_OneTerminal ==
  \A r \in Requests :
    /\ \A i \in 1 .. Len(mt_events[r]) :
         Terminal(mt_events[r][i].type) => i = Len(mt_events[r])
    /\ (r \in mt_sent /\ mt_gen[r] \in {"done", "threw"})
         => TerminalCount(mt_events[r]) = 1

\* what a frame arrival leaves alone when it delivers to no call
MtUntouched ==
  /\ mt_messageStreams' = mt_messageStreams
  /\ mt_chan' = mt_chan
  /\ mt_chanState' = mt_chanState
  /\ mt_gen' = mt_gen
  /\ mt_pend' = mt_pend
  /\ mt_events' = mt_events
  /\ mt_removedBy' = mt_removedBy

\* C4: a CONVERSATION or ERROR frame whose correlation id has no entry in the
\* registry leaves the registry as it was and reaches no call: no stream, no
\* reader and no event sequence changes.
C4_UnknownDropped ==
  [][\A f \in FramesM :
       (MtFrameArrive(f) /\ f.type \in {"CONVERSATION", "ERROR"}
          /\ CorrelationId(f) \notin mt_messageStreams)
       => MtUntouched]_vars

\* a frame was dropped for want of an entry while another call was registered
\* and after a call's entry had been removed on its DONE chunk
C4_Witness ==
  /\ mt_dropped > 0
  /\ mt_messageStreams # {}
  /\ \E r \in Requests : mt_removedBy[r] = "terminal"

\* C5: after close(), each call that was in flight when it ran and has ended
\* has yielded exactly one terminal event, and none of them is registered.
C5_CloseDelivers ==
  mt_closeCalled =>
    \A r \in mt_atClose :
      /\ r \notin mt_messageStreams
      /\ mt_gen[r] \in {"done", "threw"} => TerminalCount(mt_events[r]) = 1

\* C6: a call that was suspended in read() when close() ran on the Open
\* session stays suspended only while a step the runtime is bound to take is
\* still due: the closing handshake or the outcome of a connection attempt.
C6_NoneLeftSuspended ==
  \A r \in rt_atClose :
    rt_gen[r] = "reading" => (rt_ws = "closing" \/ rt_loop = "reconnecting")

\* C7: the entry of a call leaves the registry on the terminal frame of that
\* call, by its caller, or (data model, PendingRequest) when the session ends;
\* never because of a frame of another call.
C7_RemovedOnce ==
  \A r \in mt_sent : mt_removedBy[r] \in {"none", "terminal", "caller", "teardown"}

\* the frame of the step is handed to the stream: queued, or taken by the
\* reader at the head of the pending reads
RtHandedOver ==
  IF rt_readRequests = <<>> THEN
    /\ Len(rt_queue') = Len(rt_queue) + 1
    /\ Last(rt_queue').seq = rt_nframes'
    /\ Last(rt_queue').conn = rt_connects
  ELSE
    LET r == Head(rt_readRequests) IN
    \/ /\ Len(rt_events'[r]) = Len(rt_events[r]) + 1
       /\ Last(rt_events'[r]).seq = rt_nframes'
    \/ /\ rt_events' = rt_events
       /\ rt_readRequests' = Append(Tail(rt_readRequests), r)

\* C8: a close event answered by a successful connectWS leaves the session
\* Open with the stream readable and its queue, pending reads and readers as
\* they were; a frame that arrives on a replacement connection is handed to
\* the stream, and a DONE frame for the one waiting reader makes it yield done.
C8_ReconnectTransparent ==
  [][/\ (rt_loop = "reconnecting" /\ rt_ws' = "open") => RtOpen'
     /\ ((rt_loop = "listening" /\ rt_loop' = "reconnecting")
           \/ (rt_loop = "reconnecting" /\ rt_ws' = "open"))
          => /\ rt_stream' = "readable"
             /\ rt_queue' = rt_queue
             /\ rt_readRequests' = rt_readRequests
             /\ rt_gen' = rt_gen
             /\ rt_events' = rt_events
     /\ (rt_connects >= 1 /\ rt_nframes' = rt_nframes + 1) => RtHandedOver
     /\ \A r \in Requests :
          (rt_connects >= 1 /\ rt_readRequests = <<r>> /\ RtFrameArrive(Done(r)))
            => /\ rt_gen'[r] = "yielded"
               /\ Last(rt_events'[r]).type = "done"
               /\ Last(rt_events'[r]).cid = r]_vars

\* a call got a frame of its own before the first disconnect and its done on
\* the connection made by the last reconnect, the session being Open
C8_Witness ==
  /\ RtOpen
  /\ rt_connects = MaxConnects
  /\ \E r \in Requests :
       /\ Len(rt_events[r]) >= 2
       /\ rt_events[r][1].cid = r /\ rt_events[r][1].conn = 0
       /\ Last(rt_events[r]).type = "done"
       /\ Last(rt_events[r]).cid = r
       /\ Last(rt_events[r]).conn = MaxConnects

\* C9: when the reconnect attempt fails, every call suspended in read() gets a
\* terminal disconnected or error event.
C9_FailureTerminal ==
  [][(rt_loop = "reconnecting" /\ rt_loop' = "ended")
       => \A r \in Range(rt_readRequests) :
            /\ Len(rt_events'[r]) = Len(rt_events[r]) + 1
            /\ Last(rt_events'[r]).type \in {"disconnected", "error"}]_vars

\* C10: after close() on an Open session no reconnect is started: connectWS
\* is not called again.
C10_CloseIsFinal ==
  [][rt_closedOpen => (rt_connects' = rt_connects /\ rt_loop' # "reconnecting")]_vars

\* C11: an ERROR frame for call x that arrives while x and y both wait in
\* read() makes x yield one error event, and leaves y, the registry entry of
\* y, the inbound stream and the connection as they were.
C11_ErrorOnlyOwner ==
  [][\A x, y \in Requests :
       (x # y /\ mt_gen[x] = "reading" /\ mt_gen[y] = "reading"
          /\ {x, y} \subseteq mt_messageStreams /\ MtFrameArrive(ErrorFrame(x)))
       => /\ mt_gen'[x] = "yielded"
          /\ Len(mt_events'[x]) = Len(mt_events[x]) + 1
          /\ Last(mt_events'[x]).type = "error"
          /\ mt_gen'[y] = "reading"
          /\ mt_events'[y] = mt_events[y]
          /\ mt_chanState'[y] = "readable"
          /\ y \in mt_messageStreams'
          /\ mt_loop' = "reading"
          /\ mt_globalStream' = "readable"
          /\ mt_ws' = "open"]_vars


\* C12: a payload that fails to parse is skipped: the inbound stream stays
\* readable, the distribution loop keeps reading, and no call, stream or
\* registry entry changes because of it.
C12_ParseErrorSkipped ==
  [][(mt_ws = "open" /\ mt_globalStream = "readable" /\ MtParseError)
       => /\ mt_globalStream' = "readable"
          /\ mt_loop' = mt_loop
          /\ MtUntouched]_vars


\* C13: the socket's error event on the Open session starts one reconnect
\* attempt and leaves the inbound stream readable.
C13_FaultReconnects ==
  [][(RtOpen /\ RtWsError)
       => /\ rt_connects' = rt_connects + 1
          /\ rt_loop' = "reconnecting"
          /\ rt_stream' = "readable"]_vars


\* C14: a sendMessage call started while the session is not Open fails to its
\* caller, and a call's frame is transmitted only on an open connection.
C14_NotConnected ==
  [][\A r \in Requests :
       /\ (rt_gen[r] = "idle" /\ rt_gen'[r] # "idle" /\ ~RtOpen) => rt_gen'[r] = "threw"
       /\ (r \in rt_sent' \ rt_sent) => rt_ws = "open"]_vars


\* C15: the registry holds only calls that are still being consumed: an entry
\* is gone once its caller abandoned the generator, and no entry stays behind
\* for a call that has ended.
C15_RegistryOnlyConsumed == mt_messageStreams \subseteq MtInFlight


\* C16: a close() that follows an earlier close() changes nothing: the
\* connection stays as the first call left it and no state of the Thread moves.
C16_CloseIdempotent ==
  [][(rt_closedOpen /\ RtClose) => UNCHANGED rtVars]_vars


\* the physical connections of the Thread that are open, closing, or being
\* opened by a connectWS call the onclose handler awaits
RtConnections ==
  (IF rt_ws \in {"open", "closing"} THEN 1 ELSE 0)
    + (IF rt_loop = "reconnecting" THEN 1 ELSE 0)

\* C17: the Thread has at most one connection that is open or being opened:
\* a replacement is requested only when the previous socket is closed.
C17_OneConnection == RtConnections <= 1

\* a replacement is being opened for the second time, after close() was
\* called on the Open session and the socket closed
C17_Witness ==
  /\ rt_closedOpen
  /\ rt_loop = "reconnecting"
  /\ rt_connects = MaxConnects
  /\ RtConnections = 1


\* C18: a CONVERSATION frame goes to the call registered under the frame's
\* data.reqMessageId, whatever its metadata.messageId is: it reaches the
\* stream or the event sequence of that call, and of no other call.
C18_RoutedByReqMessageId ==
  [][\A f \in FramesM :
       (f.type = "CONVERSATION" /\ f.req \in mt_messageStreams /\ MtFrameArrive(f))
       => /\ (mt_chan'[f.req] # mt_chan[f.req] \/ mt_events'[f.req] # mt_events[f.req])
          /\ \A o \in Requests \ {f.req} :
               mt_chan'[o] = mt_chan[o] /\ mt_events'[o] = mt_events[o]]_vars


\* C19: a NOTIFICATION frame is never placed on the event sequence of a call:
\* no call yields a notification event.
C19_NotificationBroadcast ==
  \A r \in Requests :
    \A i \in 1 .. Len(rt_events[r]) : rt_events[r][i].type # "notification"


\* C20: an ACK frame whose data.reqMessageId is the id of a registered call is
\* forwarded to that call and to no other; any other ACK frame reaches no call;
\* and no ACK frame adds an entry to the registry.
C20_AckForwarded ==
  [][\A f \in FramesM :
       (f.type = "ACK" /\ MtFrameArrive(f))
       => /\ mt_messageStreams' \subseteq mt_messageStreams
          /\ \A o \in Requests \ {CorrelationId(f)} :
               mt_chan'[o] = mt_chan[o] /\ mt_events'[o] = mt_events[o]
          /\ CorrelationId(f) \in mt_messageStreams
               => \/ mt_chan'[CorrelationId(f)] # mt_chan[CorrelationId(f)]
                  \/ mt_events'[CorrelationId(f)] # mt_events[CorrelationId(f)]]_vars


\* C21: for a chunk with status TOOL_CALL sendMessage yields one tool-call
\* event whose data is the contents array of the chunk, and nothing else,
\* in both revisions.
C21_ToolCallVerbatim ==
  (tr_chunk.type = "CONVERSATION" /\ tr_chunk.status = "TOOL_CALL")
    => /\ tr_eventsR = <<Event("tool-call", "", tr_chunk.contents)>>
       /\ tr_eventsM = <<Event("tool-call", "", tr_chunk.contents)>>


\* the events of evs that come from the content item of index i
EventsOfItem(evs, i) == SelectSeq(evs, LAMBDA e : e.item = i)

\* C22: in an APPEND chunk a TEXT item on the EVENT channel yields one
\* reasoning-start when its text is the thinking sentinel and nothing
\* otherwise; a TEXT item on the AI_ANSWER channel yields one text-delta with
\* its text, sentinel or not.  Both revisions.
C22_Sentinels ==
  (tr_chunk.type = "CONVERSATION" /\ tr_chunk.status = "APPEND") =>
    \A i \in 1 .. Len(tr_chunk.contents) :
      LET c == tr_chunk.contents[i]
          want ==
            IF tr_chunk.action = "EVENT" THEN
              IF c.text = Thinking
              THEN <<[Event("reasoning-start", "", <<>>) EXCEPT !.item = i]>>
              ELSE <<>>
            ELSE <<[Event("text-delta", c.text, <<>>) EXCEPT !.item = i]>> IN
      c.contentType = "TEXT"
        => EventsOfItem(tr_eventsR, i) = want /\ EventsOfItem(tr_eventsM, i) = want

\* an EVENT-channel APPEND chunk with the thinking and the searching sentinel
\* was translated into a single reasoning-start
C22_Witness ==
  /\ tr_chunk.action = "EVENT" /\ tr_chunk.status = "APPEND"
  /\ tr_chunk.contents = <<TextItem(Thinking), TextItem(Searching)>>
  /\ Len(tr_eventsR) = 1 /\ tr_eventsR[1].type = "reasoning-start"
  /\ tr_eventsM = tr_eventsR


\* what the claim asks of the events evs of the OUTPUT_IMAGE item of index i
\* whose image list is gens: a thumbnail event, of the first entry, then an
\* image event exactly when that entry has a final URL, and nothing more
ImageEventsOk(evs, gens, i) ==
  /\ evs # <<>>
  /\ evs[1].type = "image-thumbnail"
  /\ gens # <<>> =>
       /\ evs[1].text = gens[1].thumbnail
       /\ IF gens[1].preview # ""
          THEN /\ Len(evs) = 2
               /\ evs[2].type = "image" /\ evs[2].text = gens[1].preview
          ELSE Len(evs) = 1

\* C23: every OUTPUT_IMAGE item of an APPEND chunk yields an image-thumbnail
\* event of the first entry of its image list, then an image event if and only
\* if that entry carries a final URL; later entries yield nothing.
C23_ImageEvents ==
  (tr_chunk.type = "CONVERSATION" /\ tr_chunk.status = "APPEND") =>
    \A i \in 1 .. Len(tr_chunk.contents) :
      LET c == tr_chunk.contents[i] IN
      c.contentType = "OUTPUT_IMAGE"
        => /\ ImageEventsOk(EventsOfItem(tr_eventsR, i), c.imageGens, i)
           /\ ImageEventsOk(EventsOfItem(tr_eventsM, i), c.imageGens, i)


\* C24: the entry of a call is in the registry from the moment its frame is
\* transmitted: a frame keyed with the id of a transmitted call whose entry
\* nothing has removed since finds the entry and is not dropped as unknown.
C24_RegisteredBeforeSent ==
  [][\A f \in FramesM :
       (f.type \in {"CONVERSATION", "ERROR"} /\ MtKey(f) \in mt_sent
          /\ mt_removedBy[MtKey(f)] = "none" /\ MtFrameArrive(f))
       => /\ MtKey(f) \in mt_messageStreams
          /\ mt_dropped' = mt_dropped]_vars

\* the first frame of the session answered a transmitted call and reached it,
\* and no frame was dropped
C24_Witness ==
  \E r \in Requests :
    /\ r \in mt_sent
    /\ mt_events[r] # <<>>
    /\ mt_events[r][1].seq = 1 /\ mt_events[r][1].cid = r
    /\ mt_dropped = 0


\* C25: a sendMessage call that fails before its frame is transmitted leaves
\* the registry as it was before the call, without an entry for the call.
C25_FailedSendNoEntry ==
  [][\A r \in Requests :
       (mt_gen[r] = "idle" /\ mt_gen'[r] = "threw")
       => /\ r \notin mt_messageStreams'
          /\ mt_messageStreams' = mt_messageStreams]_vars

\* C27: when the distribution loop ends, by close(), by the close event or by
\* a transport or parse error, the chunks already enqueued on the stream of a
\* call stay there for its reader, and a call ends only after it has read them.
C27_QueuedStillYielded ==
  [][/\ (mt_loop = "reading" /\ mt_loop' = "ended")
          => \A r \in mt_messageStreams : mt_chan'[r] = mt_chan[r]
     /\ \A r \in Requests :
          (mt_gen[r] \in {"reading", "yielded"} /\ mt_gen'[r] \in {"done", "threw"})
            => MtSkip(mt_chan[r]) = <<>>]_vars


\* no frame is behind events of two calls, and no event of a frame occurs
\* twice on the sequence of one call (seq 0: an event that comes from no frame)
NoFrameTwice(events) ==
  \A r1, r2 \in Requests :
    \A i \in 1 .. Len(events[r1]), j \in 1 .. Len(events[r2]) :
      (events[r1][i].seq # 0 /\ events[r1][i].seq = events[r2][j].seq)
        => /\ r1 = r2
           /\ i # j => \/ events[r1][i].item # events[r2][j].item
                       \/ events[r1][i].type # events[r2][j].type

\* C26: every frame is consumed by at most one sendMessage call and translated
\* once: the events yielded or about to be yielded by different calls come
\* from different frames, and no call has an event of a frame twice.
C26_ConsumedOnce ==
  /\ NoFrameTwice([r \in Requests |-> rt_events[r] \o rt_pend[r]])
  /\ NoFrameTwice([r \in Requests |-> mt_events[r] \o mt_pend[r]])

\* two calls read the shared stream in turn: one has events of two frames,
\* and the other call has an event of a frame that arrived in between
C26_Witness ==
  \E r1, r2 \in Requests :
    /\ r1 # r2
    /\ \E i, k \in 1 .. Len(rt_events[r1]), j \in 1 .. Len(rt_events[r2]) :
         /\ rt_events[r1][i].seq > 0
         /\ rt_events[r1][i].seq < rt_events[r2][j].seq
         /\ rt_events[r2][j].seq < rt_events[r1][k].seq
====
